---- MODULE Spec2Model ----
(***************************************************************************)
(* Model of ouroboros::cyclic_deque (src/src/ouroboros/cyclic_deque.hpp),  *)
(* the owning, vector-backed variant: internal::cyclic_deque_impl and the  *)
(* index arithmetic it is built on.                                        *)
(*                                                                         *)
(* Physical positions are offsets from buf.begin(): the backing region is  *)
(* [0, cap), buf.begin() is 0 and buf.end() is cap.  The markers are plain *)
(* integers, because the code forms positions outside the region (wrap     *)
(* accepts [first, first + 2n)) and nothing in it clamps them.             *)
(*                                                                         *)
(* A store through a position outside [0, cap) is undefined behaviour: the *)
(* model takes both outcomes a build produces (the store lands in foreign  *)
(* memory and the call completes, or the process is aborted) and models    *)
(* nothing after either.                                                   *)
(***************************************************************************)
EXTENDS Integers, Sequences, FiniteSets, TLC

\* Bounds of the model.
MaxCap == 3
MaxOver == 1

\* Content of a slot of std::vector<T>(c): value-initialised.
InitVal == 0

\* Element values handed to push_back / push_front / the ranges and the
\* sequence constructor.  The code never inspects an element, so two
\* distinguishable values show every reordering.
Vals == {InitVal, InitVal + 1}

\* Stand-in for what a read outside the backing region returns.
Outside == InitVal + 2

VARIABLES cap, buf, deq_start, deq_finish, deq_size, abs, last, ub

vars == <<cap, buf, deq_start, deq_finish, deq_size, abs, last, ub>>

\* The deque as one record (the members of cyclic_deque_impl).
Cur ==
  [cap |-> cap, buf |-> buf, deq_start |-> deq_start,
   deq_finish |-> deq_finish, deq_size |-> deq_size]

Region(s) == 0..(s.cap - 1)

----------------------------------------------------------------------------
\* internal:: index arithmetic

\* wrap_cycle that compares with > instead of >=.
wrap_cycle_StrictCompare(index, start, finish) ==
  IF index > finish THEN index - finish + start ELSE index

wrap_cycle(index, start, finish) ==
  IF index >= finish THEN index - finish + start ELSE index

\* inc_cycle without the comparison against finish.
inc_cycle_NoWrap(index, start, finish) == index + 1

inc_cycle(index, start, finish) ==
  IF index + 1 = finish THEN start ELSE index + 1

\* dec_cycle without the comparison against start.
dec_cycle_NoWrap(index, start, finish) == index - 1

dec_cycle(index, start, finish) ==
  IF index = start THEN finish - 1 ELSE index - 1

----------------------------------------------------------------------------
\* cyclic_deque_impl: queries and address translation

\* capacity() that returns the element count.
capacity_FromSize(s) == s.deq_size

capacity(s) == s.cap

size(s) == s.deq_size

available(s) == capacity(s) - size(s)

\* empty() as the negation of full().
empty_NotFull(s) == s.deq_size # capacity(s)

empty(s) == s.deq_size = 0

\* full() told from the markers: start = finish.
full_ByMarkers(s) == s.deq_start = s.deq_finish

full(s) == s.deq_size = capacity(s)

impl_wrap_cycle(s, index) == wrap_cycle(index, 0, s.cap)

impl_inc_cycle(s, index) == inc_cycle(index, 0, s.cap)

impl_dec_cycle(s, index) == dec_cycle(index, 0, s.cap)

inner_to_outer(s, i) == impl_wrap_cycle(s, s.deq_start + i)

\* Dereference of a physical position.
Mem(s, p) == IF p \in Region(s) THEN s.buf[p] ELSE Outside

\* operator[](i)
At(s, i) == Mem(s, inner_to_outer(s, i))

\* cdeque[0], ..., cdeque[size()-1]
Logical(s) == [i \in 1..s.deq_size |-> At(s, i - 1)]

\* The physical positions of the logical elements.
Slots(s) == {inner_to_outer(s, i) : i \in 0..(s.deq_size - 1)}

----------------------------------------------------------------------------
\* Element stores.  st is the sequence of <<position, value>> assignments
\* in the order the code performs them; a store outside the region leaves
\* buf alone.

StoreAll(b, st) ==
  [p \in DOMAIN b |->
     LET hits == {k \in 1..Len(st) : st[k][1] = p}
     IN IF hits = {} THEN b[p]
        ELSE st[CHOOSE k \in hits : \A j \in hits : j <= k][2]]

Positions(st) == {st[k][1] : k \in 1..Len(st)}

\* The stores st went up to the physical end of the buffer and on from its
\* physical start.
Wrapped(st) == \E k \in 1..(Len(st) - 1) : st[k + 1][1] < st[k][1]

\* What a call did: the deque after it, the stores it performed (wr the
\* positions stored through, split whether they wrapped), whether the
\* element assignment threw.
Result(s, st, t) ==
  [st |-> s, wr |-> Positions(st), split |-> Wrapped(st), threw |-> t]

----------------------------------------------------------------------------
\* cyclic_deque_impl: mutators.  throws says that the element assignment
\* of set_value throws; partial says that the assignment had already
\* modified its target when it threw.  wr is the set of positions stored
\* through.

\* push_back that advances deq_finish and deq_size before set_value.
push_back_MarkersFirst(s, value, throws, partial) ==
  LET target == s.deq_finish
      st == IF throws /\ ~partial THEN <<>> ELSE << <<target, value>> >>
  IN Result([s EXCEPT !.buf = StoreAll(s.buf, st),
                      !.deq_finish = impl_inc_cycle(s, s.deq_finish),
                      !.deq_size = @ + 1], st, throws)

push_back(s, value, throws, partial) ==
  LET target == s.deq_finish
      st == IF throws /\ ~partial THEN <<>> ELSE << <<target, value>> >>
      b == StoreAll(s.buf, st)
  IN IF throws
     THEN Result([s EXCEPT !.buf = b], st, TRUE)
     ELSE Result([s EXCEPT !.buf = b,
                           !.deq_finish = impl_inc_cycle(s, s.deq_finish),
                           !.deq_size = @ + 1], st, FALSE)

pop_back(s) ==
  Result([s EXCEPT !.deq_finish = impl_dec_cycle(s, s.deq_finish),
                   !.deq_size = @ - 1], <<>>, FALSE)

\* push_front that assigns through deq_start instead of the decremented
\* position.
push_front_StoresAtStart(s, value, throws, partial) ==
  LET dec_deq_start == impl_dec_cycle(s, s.deq_start)
      st == IF throws /\ ~partial THEN <<>> ELSE << <<s.deq_start, value>> >>
      b == StoreAll(s.buf, st)
  IN IF throws
     THEN Result([s EXCEPT !.buf = b], st, TRUE)
     ELSE Result([s EXCEPT !.buf = b,
                           !.deq_start = dec_deq_start,
                           !.deq_size = @ + 1], st, FALSE)

push_front(s, value, throws, partial) ==
  LET dec_deq_start == impl_dec_cycle(s, s.deq_start)
      st == IF throws /\ ~partial THEN <<>> ELSE << <<dec_deq_start, value>> >>
      b == StoreAll(s.buf, st)
  IN IF throws
     THEN Result([s EXCEPT !.buf = b], st, TRUE)
     ELSE Result([s EXCEPT !.buf = b,
                           !.deq_start = dec_deq_start,
                           !.deq_size = @ + 1], st, FALSE)

pop_front(s) ==
  Result([s EXCEPT !.deq_start = impl_inc_cycle(s, s.deq_start),
                   !.deq_size = @ - 1], <<>>, FALSE)

\* std::copy driven by the stores all (in copy order).  Without a throw
\* the deque becomes s2.  With a throw, the first done stores have taken
\* effect (the last of them possibly by the assignment that threw) and the
\* statements after the copy are not reached: markers and size stay those
\* of s.
CopyResult(s, all, throws, done, s2) ==
  IF ~throws
  THEN Result([s2 EXCEPT !.buf = StoreAll(s.buf, all)], all, FALSE)
  ELSE Result([s EXCEPT !.buf = StoreAll(s.buf, SubSeq(all, 1, done))],
              SubSeq(all, 1, done), TRUE)

\* append_range that assigns deq_finish from the first sub-copy of a split
\* copy as well.
append_range_EagerFinish(s, rg, throws, done) ==
  LET rg_size == Len(rg)
      size1 == s.cap - s.deq_finish
      one == rg_size <= size1
      dst(k) == IF one \/ k <= size1
                THEN s.deq_finish + (k - 1)
                ELSE 0 + (k - size1 - 1)
      all == [k \in 1..rg_size |-> <<dst(k), rg[k]>>]
      finish2 == IF one THEN s.deq_finish + rg_size ELSE 0 + (rg_size - size1)
      s1 == IF ~one /\ done >= size1
            THEN [s EXCEPT !.deq_finish = s.deq_finish + size1]
            ELSE s
  IN CopyResult(s1, all, throws, done,
                [s EXCEPT !.deq_finish = finish2, !.deq_size = @ + rg_size])

append_range(s, rg, throws, done) ==
  LET rg_size == Len(rg)
      size1 == s.cap - s.deq_finish
      one == rg_size <= size1
      dst(k) == IF one \/ k <= size1
                THEN s.deq_finish + (k - 1)
                ELSE 0 + (k - size1 - 1)
      all == [k \in 1..rg_size |-> <<dst(k), rg[k]>>]
      finish2 == IF one THEN s.deq_finish + rg_size ELSE 0 + (rg_size - size1)
  IN CopyResult(s, all, throws, done,
                [s EXCEPT !.deq_finish = finish2, !.deq_size = @ + rg_size])

prepend_range(s, rg, throws, done) ==
  LET rg_size == Len(rg)
      dec_deq_start == impl_dec_cycle(s, s.deq_start) + 1
      size2 == dec_deq_start - 0
      one == rg_size <= size2
      split == rg_size - size2
      start2 == IF one THEN dec_deq_start - rg_size ELSE s.cap - rg_size + size2
      all == [k \in 1..rg_size |->
                IF one THEN <<start2 + (k - 1), rg[k]>>
                ELSE IF k <= size2 THEN <<0 + (k - 1), rg[split + k]>>
                ELSE <<start2 + (k - size2 - 1), rg[k - size2]>>]
  IN CopyResult(s, all, throws, done,
                [s EXCEPT !.deq_start = start2, !.deq_size = @ + rg_size])

\* clear() that leaves deq_finish where it was.
clear_KeepsFinish(s) ==
  Result([s EXCEPT !.deq_start = 0, !.deq_size = 0], <<>>, FALSE)

\* clear() that releases the buffer as well.
clear_ReleasesBuffer(s) ==
  Result([s EXCEPT !.cap = 0, !.buf = [p \in {} |-> InitVal],
                   !.deq_start = 0, !.deq_finish = 0, !.deq_size = 0],
         <<>>, FALSE)

clear(s) ==
  Result([s EXCEPT !.deq_start = 0, !.deq_finish = 0, !.deq_size = 0],
         <<>>, FALSE)

\* resize that adds n to deq_size.
resize_AddsN(s, n) ==
  LET sz == s.deq_size
      d == n - sz
      finish2 == IF d < 0
                 THEN impl_wrap_cycle(s, s.deq_finish + d + capacity(s))
                 ELSE impl_wrap_cycle(s, s.deq_finish + d)
  IN Result([s EXCEPT !.deq_finish = finish2, !.deq_size = sz + n],
            <<>>, FALSE)

resize(s, n) ==
  LET sz == s.deq_size
      d == n - sz
      finish2 == IF d < 0
                 THEN impl_wrap_cycle(s, s.deq_finish + d + capacity(s))
                 ELSE impl_wrap_cycle(s, s.deq_finish + d)
  IN Result([s EXCEPT !.deq_finish = finish2, !.deq_size = sz + d],
            <<>>, FALSE)


----------------------------------------------------------------------------
\* Constructors

\* cyclic_deque(size_type c): container(c, a), empty.
CtorCapacity(c) ==
  [cap |-> c, buf |-> [p \in 0..(c - 1) |-> InitVal],
   deq_start |-> 0, deq_finish |-> 0, deq_size |-> 0]

\* cyclic_deque(c, n) that takes its size from the container.
CtorCapacitySize_SizeFromContainer(c, n) ==
  [cap |-> c, buf |-> [p \in 0..(c - 1) |-> InitVal],
   deq_start |-> 0, deq_finish |-> wrap_cycle(0 + n, 0, c), deq_size |-> c]

\* cyclic_deque(size_type c, size_type s)
CtorCapacitySize(c, n) ==
  [cap |-> c, buf |-> [p \in 0..(c - 1) |-> InitVal],
   deq_start |-> 0, deq_finish |-> wrap_cycle(0 + n, 0, c), deq_size |-> n]

\* The sequence constructor without the size_from_container_tag: empty.
CtorSequence_Empty(input) ==
  [cap |-> Len(input), buf |-> [p \in 0..(Len(input) - 1) |-> input[p + 1]],
   deq_start |-> 0, deq_finish |-> 0, deq_size |-> 0]

\* cyclic_deque(first, last) / cyclic_deque(initializer_list)
CtorSequence(input) ==
  [cap |-> Len(input), buf |-> [p \in 0..(Len(input) - 1) |-> input[p + 1]],
   deq_start |-> 0, deq_finish |-> 0, deq_size |-> Len(input)]

SeqsUpTo(n) == UNION {[1..k -> Vals] : k \in 0..n}

Constructed ==
  {CtorCapacity(c) : c \in 0..MaxCap}
    \cup {CtorCapacitySize(c[1], c[2]) :
            c \in {x \in (0..MaxCap) \X (0..MaxCap) : x[2] <= x[1]}}
    \cup {CtorSequence(input) : input \in SeqsUpTo(MaxCap)}

\* The last call: its name, whether its stores wrapped past the physical
\* end, whether it threw.
NoCall == [op |-> "ctor", split |-> FALSE, threw |-> FALSE]

Call(o, res) == [op |-> o, split |-> res.split, threw |-> res.threw]

InitFrom(S) ==
  /\ \E s \in S :
       /\ cap = s.cap
       /\ buf = s.buf
       /\ deq_start = s.deq_start
       /\ deq_finish = s.deq_finish
       /\ deq_size = s.deq_size
       /\ abs = Logical(s)
  /\ last = NoCall
  /\ ub = "none"

Init == InitFrom(Constructed)

----------------------------------------------------------------------------
\* Operations as steps.  res is what the call computes from Cur, a the
\* abstract sequence after it.

Outcomes(res) == IF res.wr \subseteq Region(Cur) THEN {"none"} ELSE {"oob", "abort"}

Commit(c, res, a) ==
  /\ ub = "none"
  /\ last' = c
  /\ \E o \in Outcomes(res) :
       /\ ub' = o
       /\ cap' = IF o = "abort" THEN cap ELSE res.st.cap
       /\ buf' = IF o = "abort" THEN buf ELSE res.st.buf
       /\ deq_start' = IF o = "abort" THEN deq_start ELSE res.st.deq_start
       /\ deq_finish' = IF o = "abort" THEN deq_finish ELSE res.st.deq_finish
       /\ deq_size' = IF o = "abort" THEN deq_size ELSE res.st.deq_size
       /\ abs' = IF o = "abort" THEN abs ELSE a

PushBack ==
  \E v \in Vals, throws \in BOOLEAN, partial \in BOOLEAN :
    /\ ~full(Cur)
    /\ throws \/ ~partial
    /\ LET res == push_back(Cur, v, throws, partial)
       IN Commit(Call("push_back", res), res,
                 IF throws THEN abs ELSE Append(abs, v))

PopBack ==
  /\ ~empty(Cur)
  /\ LET res == pop_back(Cur)
     IN Commit(Call("pop_back", res), res,
               SubSeq(abs, 1, Len(abs) - 1))

PushFront ==
  \E v \in Vals, throws \in BOOLEAN, partial \in BOOLEAN :
    /\ ~full(Cur)
    /\ throws \/ ~partial
    /\ LET res == push_front(Cur, v, throws, partial)
       IN Commit(Call("push_front", res), res,
                 IF throws THEN abs ELSE <<v>> \o abs)

PopFront ==
  /\ ~empty(Cur)
  /\ impl_inc_cycle(Cur, deq_start) <= cap + MaxOver
  /\ LET res == pop_front(Cur)
     IN Commit(Call("pop_front", res), res, Tail(abs))

AppendRange ==
  \E rg \in SeqsUpTo(MaxCap) :
    \E throws \in BOOLEAN, done \in 0..Len(rg) :
      /\ Len(rg) <= available(Cur)
      /\ IF throws THEN Len(rg) >= 1 ELSE done = Len(rg)
      /\ LET res == append_range(Cur, rg, throws, done)
         IN Commit(Call("append_range", res), res,
                   IF throws THEN abs ELSE abs \o rg)

PrependRange ==
  \E rg \in SeqsUpTo(MaxCap) :
    \E throws \in BOOLEAN, done \in 0..Len(rg) :
      /\ Len(rg) <= available(Cur)
      /\ IF throws THEN Len(rg) >= 1 ELSE done = Len(rg)
      /\ LET res == prepend_range(Cur, rg, throws, done)
         IN Commit(Call("prepend_range", res), res,
                   IF throws THEN abs ELSE rg \o abs)

Clear ==
  LET res == clear(Cur)
  IN Commit(Call("clear", res), res, <<>>)

Resize ==
  \E n \in 0..cap :
    LET res == resize(Cur, n)
    IN Commit(Call("resize", res), res,
              IF n <= Len(abs) THEN SubSeq(abs, 1, n)
              ELSE abs \o SubSeq(Logical(res.st), Len(abs) + 1, n))

Next ==
  \/ PushBack
  \/ PopBack
  \/ PushFront
  \/ PopFront
  \/ AppendRange
  \/ PrependRange
  \/ Clear
  \/ Resize

Spec == Init /\ [][Next]_vars

----------------------------------------------------------------------------
\* Pushes and pops only, from an empty deque of capacity >= 1.

InitEmpty == InitFrom({CtorCapacity(c) : c \in 1..MaxCap})

NextPushPop == PushBack \/ PopBack \/ PushFront \/ PopFront

SpecPushPop == InitEmpty /\ [][NextPushPop]_vars

\* C1: after every push/pop call on a deque that started empty, size() is
\* the length of the abstract sequence and cdeque[i] is its i-th element,
\* read from a slot of the backing region.
C1_PushPopRefinesSequence ==
  /\ size(Cur) = Len(abs)
  /\ Slots(Cur) \subseteq Region(Cur)
  /\ Logical(Cur) = abs

\* A deque whose window has wrapped past the physical end and been rewritten.
C1_Witness ==
  /\ cap = MaxCap
  /\ deq_size = cap
  /\ deq_start > 0
  /\ last.op = "push_back"
  /\ abs[1] # abs[Len(abs)]

----------------------------------------------------------------------------
\* Helpers of the statements below.

\* The slots of the buffer whose content differs between s and t.
Changed(s, t) == {p \in Region(s) : s.buf[p] # t.buf[p]}

SameMarkers(s, t) ==
  /\ t.deq_start = s.deq_start
  /\ t.deq_finish = s.deq_finish
  /\ t.deq_size = s.deq_size

\* Every logical element of s is in t at the same slot with the same content.
SameElements(s, t) ==
  \A i \in 0..(s.deq_size - 1) :
    /\ inner_to_outer(t, i) = inner_to_outer(s, i)
    /\ At(t, i) = At(s, i)

\* The ranges a call of append_range / prepend_range may pass in state s.
Ranges(s) == {rg \in SeqsUpTo(MaxCap) : Len(rg) <= available(s)}

RECURSIVE PushBackAll(_, _)
\* push_back(r[0]), push_back(r[1]), ..., one by one.
PushBackAll(s, rg) ==
  IF rg = <<>> THEN s
  ELSE PushBackAll(push_back(s, Head(rg), FALSE, FALSE).st, Tail(rg))

RECURSIVE PushFrontAll(_, _)
\* push_front(r[k-1]), ..., push_front(r[0]), one by one.
PushFrontAll(s, rg) ==
  IF rg = <<>> THEN s
  ELSE PushFrontAll(push_front(s, rg[Len(rg)], FALSE, FALSE).st,
                    SubSeq(rg, 1, Len(rg) - 1))

Live == ub = "none"

----------------------------------------------------------------------------
\* C2: on a deque of capacity >= 1, start and finish are positions of
\* [first, last) in every reachable state; last is never stored in a marker.
C2_MarkersInsideRegion ==
  (Live /\ cap >= 1) =>
    /\ deq_start \in Region(Cur)
    /\ deq_finish \in Region(Cur)

\* C3: append_range(r) with length(r) <= available() leaves the same size()
\* and the same logical contents as push_back(r[0]), ..., push_back(r[k-1])
\* from the same state.
C3_AppendRangeAsPushBacks ==
  Live =>
    \A rg \in Ranges(Cur) :
      LET a == append_range(Cur, rg, FALSE, Len(rg)).st
          b == PushBackAll(Cur, rg)
      IN /\ size(a) = size(b)
         /\ Logical(a) = Logical(b)

\* C4: prepend_range(r) with length(r) <= available() leaves the same size()
\* and the same logical contents as push_front(r[k-1]), ..., push_front(r[0])
\* from the same state: r, then the old elements in order.
C4_PrependRangeAsPushFronts ==
  Live =>
    \A rg \in Ranges(Cur) :
      LET a == prepend_range(Cur, rg, FALSE, Len(rg)).st
          b == PushFrontAll(Cur, rg)
      IN /\ size(a) = size(b)
         /\ Logical(a) = Logical(b)
         /\ Logical(a) = rg \o Logical(Cur)

\* C5: when the element assignment of push_back or push_front throws on a
\* non-full deque, start, finish and size() are as before the call, every
\* logical element keeps its slot and content, and the only slot that may
\* differ is the target slot, which is outside the logical window.
C5_PushThrowKeepsState ==
  (Live /\ ~full(Cur)) =>
    \A v \in Vals, partial \in BOOLEAN :
      /\ LET res == push_back(Cur, v, TRUE, partial)
         IN /\ res.threw
            /\ SameMarkers(Cur, res.st)
            /\ SameElements(Cur, res.st)
            /\ Changed(Cur, res.st) \subseteq {deq_finish}
            /\ deq_finish \notin Slots(Cur)
      /\ LET res == push_front(Cur, v, TRUE, partial)
         IN /\ res.threw
            /\ SameMarkers(Cur, res.st)
            /\ SameElements(Cur, res.st)
            /\ Changed(Cur, res.st) \subseteq {impl_dec_cycle(Cur, deq_start)}
            /\ impl_dec_cycle(Cur, deq_start) \notin Slots(Cur)

\* A push_front that threw on a deque holding elements, its target being the
\* last physical slot.
C5_Witness ==
  /\ Live
  /\ last.op = "push_front"
  /\ last.threw
  /\ cap >= 2
  /\ deq_size >= 1
  /\ deq_start = 0

C7_ResizeMovesFinishOnly ==
  (Live /\ cap >= 1) =>
    \A n \in 0..cap :
      LET t == resize(Cur, n).st
      IN /\ size(t) = n
         /\ t.deq_start = deq_start
         /\ t.buf = buf
         /\ t.deq_finish \in Region(Cur)
         /\ t.deq_finish = (deq_start + n) % cap
         /\ n >= 1 => impl_dec_cycle(t, t.deq_finish) = inner_to_outer(t, n - 1)

\* C8: push_back(v) on a non-full deque writes exactly one slot, the slot
\* wrap(start + size()) of before the call, which is inside [first, last)
\* and holds no logical element; every other slot is unchanged.
C8_PushBackWritesOneFreeSlot ==
  (Live /\ ~full(Cur)) =>
    \A v \in Vals :
      LET res == push_back(Cur, v, FALSE, FALSE)
          target == impl_wrap_cycle(Cur, deq_start + deq_size)
      IN /\ res.wr = {target}
         /\ target \in Region(Cur)
         /\ target \notin Slots(Cur)
         /\ Changed(Cur, res.st) \subseteq {target}
         /\ Mem(res.st, target) = v

\* C9: push_front(v) on a non-full deque writes exactly one slot, dec(start),
\* which is inside [first, last) and holds no logical element; every other
\* slot is unchanged, front() is v and cdeque[i+1] is the former cdeque[i].
C9_PushFrontWritesOneFreeSlot ==
  (Live /\ ~full(Cur)) =>
    \A v \in Vals :
      LET res == push_front(Cur, v, FALSE, FALSE)
          target == impl_dec_cycle(Cur, deq_start)
      IN /\ res.wr = {target}
         /\ target \in Region(Cur)
         /\ target \notin Slots(Cur)
         /\ Changed(Cur, res.st) \subseteq {target}
         /\ Mem(res.st, res.st.deq_start) = v
         /\ \A i \in 0..(deq_size - 1) : At(res.st, i + 1) = At(Cur, i)

\* C10: 0 <= size() <= capacity() in every reachable state.
C10_SizeWithinCapacity ==
  /\ 0 <= size(Cur)
  /\ size(Cur) <= capacity(Cur)

\* A deque filled to capacity by a split append_range.
C10_Witness ==
  /\ last.op = "append_range"
  /\ ~last.threw
  /\ last.split
  /\ cap >= 2
  /\ deq_size = cap

----------------------------------------------------------------------------
\* cyclic_deque_iterator: the deque it was taken from and a signed logical
\* index.

cyclic_deque_iterator(data, index) == [data_ |-> data, index_ |-> index]

base(it) == it.index_

\* operator-> : the physical position the iterator refers to.
iterator_arrow(it) == inner_to_outer(it.data_, it.index_)

\* operator*
iterator_deref(it) == Mem(it.data_, iterator_arrow(it))

\* Prefix operator++ / operator--.
iterator_inc(it) == [it EXCEPT !.index_ = @ + 1]

iterator_dec(it) == [it EXCEPT !.index_ = @ - 1]

\* operator+= / operator-=
iterator_add_assign(it, n) == [it EXCEPT !.index_ = @ + n]

iterator_sub_assign(it, n) == [it EXCEPT !.index_ = @ - n]

\* operator+(a, n), operator+(n, a), operator-(a, n), operator-(n, a)
iterator_plus(a, n) == iterator_add_assign(a, n)

iterator_plus_left(n, a) == iterator_add_assign(a, n)

iterator_minus(a, n) == iterator_sub_assign(a, n)

\* operator-(n, a) that subtracts the index from n.
iterator_minus_left_Arithmetic(n, a) == [a EXCEPT !.index_ = n - @]

iterator_minus_left(n, a) == iterator_sub_assign(a, n)

\* operator[](i): the physical position referred to.
iterator_subscript(it, i) == inner_to_outer(it.data_, it.index_ + i)

\* a - b as the distance of the physical positions.
iterator_difference_Physical(a, b) == iterator_arrow(a) - iterator_arrow(b)

\* operator-(a, b)
iterator_difference(a, b) == base(a) - base(b)

iterator_eq(a, b) == base(a) = base(b)

iterator_ne(a, b) == base(a) # base(b)

iterator_gt(a, b) == base(a) > base(b)

iterator_lt(a, b) == base(a) < base(b)

iterator_ge(a, b) == base(a) >= base(b)

iterator_le(a, b) == base(a) <= base(b)

begin(s) == cyclic_deque_iterator(s, 0)

\* end() computed from the markers.
end_FromMarkers(s) == cyclic_deque_iterator(s, s.deq_finish - s.deq_start)

end(s) == cyclic_deque_iterator(s, size(s))

\* std::reverse_iterator over a cyclic_deque_iterator: it holds the base
\* iterator, refers to the element before it, and steps the base backwards.
reverse_iterator(it) == [current |-> it]

reverse_arrow(rit) == iterator_arrow(iterator_dec(rit.current))

reverse_deref(rit) == iterator_deref(iterator_dec(rit.current))

reverse_inc(rit) == [current |-> iterator_dec(rit.current)]

reverse_eq(a, b) == iterator_eq(a.current, b.current)

rbegin(s) == reverse_iterator(end(s))

rend(s) == reverse_iterator(begin(s))

\* C11: in every reachable state empty() holds exactly when size() = 0,
\* full() exactly when size() = capacity(), and available() is
\* capacity() - size().
C11_QueriesAgreeWithCount ==
  /\ empty(Cur) <=> (size(Cur) = 0)
  /\ full(Cur) <=> (size(Cur) = capacity(Cur))
  /\ available(Cur) = capacity(Cur) - size(Cur)
  /\ available(Cur) >= 0

\* An empty deque whose markers have moved off the first slot, next to the
\* full deque it was a pop away from.
C11_Witness ==
  /\ Live
  /\ cap = 2
  /\ empty(Cur)
  /\ ~full(Cur)
  /\ deq_start = 1
  /\ deq_finish = 1
  /\ last.op = "pop_back"

\* C12: a capacity-0 deque has capacity() = size() = available() = 0 and is
\* empty() and full() at once, in every state it reaches; each call it may
\* receive (clear, resize(0), append_range / prepend_range of an empty
\* range) stores nothing and leaves it so.
C12_CapacityZeroEmptyAndFull ==
  cap = 0 =>
    /\ Live
    /\ capacity(Cur) = 0
    /\ size(Cur) = 0
    /\ available(Cur) = 0
    /\ empty(Cur)
    /\ full(Cur)
    /\ \A res \in {clear(Cur), resize(Cur, 0),
                   append_range(Cur, <<>>, FALSE, 0),
                   prepend_range(Cur, <<>>, FALSE, 0)} :
         /\ res.wr = {}
         /\ ~res.threw
         /\ capacity(res.st) = 0
         /\ size(res.st) = 0
         /\ empty(res.st)
         /\ full(res.st)

\* A capacity-0 deque after a prepend_range of the empty range.
C12_Witness ==
  /\ cap = 0
  /\ last.op = "prepend_range"
  /\ empty(Cur)
  /\ full(Cur)

\* C13: constructing with capacity c and initial occupancy n <= c (n = 0 for
\* the capacity-only constructor) yields size() = n, available() = c - n,
\* empty() iff n = 0, full() iff n = c, start at the first physical slot and
\* logical element i at physical slot i.
C13_ConstructWithOccupancy ==
  /\ \A c \in 0..MaxCap :
       \A n \in 0..c :
         \A s \in {CtorCapacitySize(c, n)}
                    \cup (IF n = 0 THEN {CtorCapacity(c)} ELSE {}) :
           /\ capacity(s) = c
           /\ size(s) = n
           /\ available(s) = c - n
           /\ empty(s) <=> (n = 0)
           /\ full(s) <=> (n = c)
           /\ s.deq_start = 0
           /\ \A i \in 0..(n - 1) : inner_to_outer(s, i) = i
  /\ last.op = "ctor" =>
       /\ deq_start = 0
       /\ \A i \in 0..(deq_size - 1) : inner_to_outer(Cur, i) = i

\* A freshly constructed deque of the largest capacity, one element short of
\* full.
C13_Witness ==
  /\ last.op = "ctor"
  /\ cap = MaxCap
  /\ deq_size = cap - 1
  /\ deq_finish = cap - 1
  /\ ~full(Cur)
  /\ ~empty(Cur)

\* C14: constructing from a sequence of length k yields capacity() = size()
\* = k, full, empty only for k = 0, cdeque[i] the i-th input element at
\* physical slot i, and the very state k push_back calls leave on an empty
\* deque of capacity k; a following pop_front and push_back stores inside
\* the buffer and yields the input without its head, then the pushed value.
C14_ConstructFromSequence ==
  /\ \A input \in SeqsUpTo(MaxCap) :
       LET k == Len(input)
           s == CtorSequence(input)
       IN /\ capacity(s) = k
          /\ size(s) = k
          /\ full(s)
          /\ empty(s) <=> (k = 0)
          /\ Logical(s) = input
          /\ \A i \in 0..(k - 1) : inner_to_outer(s, i) = i
          /\ s = PushBackAll(CtorCapacity(k), input)
          /\ k >= 1 =>
               \A v \in Vals :
                 LET res == push_back(pop_front(s).st, v, FALSE, FALSE)
                 IN /\ res.wr \subseteq Region(s)
                    /\ Logical(res.st) = Append(Tail(input), v)
  /\ (last.op = "ctor" /\ full(Cur)) =>
       Cur = PushBackAll(CtorCapacity(cap), Logical(Cur))

\* A deque freshly constructed from a sequence of distinguishable elements.
C14_Witness ==
  /\ last.op = "ctor"
  /\ cap = MaxCap
  /\ full(Cur)
  /\ abs[1] # abs[cap]
  /\ Logical(Cur) = abs

\* C15: from every reachable state clear() sets start and finish to the
\* first physical slot and size() to 0, so that empty() holds and begin()
\* = end(); it stores through no slot and does not throw.
C15_ClearResets ==
  Live =>
    LET res == clear(Cur)
    IN /\ res.st.deq_start = 0
       /\ res.st.deq_finish = 0
       /\ size(res.st) = 0
       /\ empty(res.st)
       /\ iterator_eq(begin(res.st), end(res.st))
       /\ res.st.buf = buf
       /\ res.st.cap = cap
       /\ res.wr = {}
       /\ ~res.threw

\* A clear() that has reset markers, the buffer still holding what was
\* stored before it.
C15_Witness ==
  /\ last.op = "clear"
  /\ cap >= 2
  /\ deq_start = 0
  /\ deq_finish = 0
  /\ empty(Cur)
  /\ \E p \in Region(Cur) : buf[p] # InitVal

----------------------------------------------------------------------------
\* Element access and traversal.  None of these calls assigns a member or
\* an element; a reference is the physical position it refers to.

\* What a call that only reads did: the deque as it was, the <<position,
\* value>> pairs it visited in order, whether it threw.
Observed(s, visited, t) ==
  [st |-> s, wr |-> {}, split |-> Wrapped(visited), threw |-> t,
   ref |-> visited]

\* at(i) whose range check admits i = size().
at_AdmitsSize(s, i) ==
  IF i > size(s)
  THEN Observed(s, <<>>, TRUE)
  ELSE Observed(s, << <<inner_to_outer(s, i), At(s, i)>> >>, FALSE)

\* at(i): throw_if_out_of_range(i), then *inner_to_outer(i).
at(s, i) ==
  IF i >= size(s)
  THEN Observed(s, <<>>, TRUE)
  ELSE Observed(s, << <<inner_to_outer(s, i), At(s, i)>> >>, FALSE)

\* front(): *deq_start
front(s) == s.deq_start

\* back(): *dec_cycle(deq_finish)
back(s) == impl_dec_cycle(s, s.deq_finish)

RECURSIVE ForwardFrom(_, _, _)
\* for (it = begin(); it != end(); ++it) visit *it, given up after more
\* than capacity() + 1 visits.
ForwardFrom(s, it, acc) ==
  IF iterator_eq(it, end(s)) \/ Len(acc) > s.cap
  THEN acc
  ELSE ForwardFrom(s, iterator_inc(it),
                   Append(acc, <<iterator_arrow(it), iterator_deref(it)>>))

Forward(s) == ForwardFrom(s, begin(s), <<>>)

RECURSIVE BackwardFrom(_, _, _)
\* for (rit = rbegin(); rit != rend(); ++rit) visit *rit, given up
\* likewise.
BackwardFrom(s, rit, acc) ==
  IF reverse_eq(rit, rend(s)) \/ Len(acc) > s.cap
  THEN acc
  ELSE BackwardFrom(s, reverse_inc(rit),
                    Append(acc, <<reverse_arrow(rit), reverse_deref(rit)>>))

Backward(s) == BackwardFrom(s, rbegin(s), <<>>)

\* The last k elements of st first: what k reverse steps visit, in
\* physical terms, when read forward.
Reverse(st) == [k \in 1..Len(st) |-> st[Len(st) + 1 - k]]

AtCall ==
  \E i \in 0..cap :
    LET res == at(Cur, i)
    IN Commit(Call("at", res), res, abs)

ForwardIteration ==
  LET res == Observed(Cur, Forward(Cur), FALSE)
  IN Commit(Call("forward", res), res, abs)

ReverseIteration ==
  LET res == Observed(Cur, Reverse(Backward(Cur)), FALSE)
  IN Commit(Call("reverse", res), res, abs)

\* a - b and the comparisons of two iterators of [begin(), end()].
IteratorCompare ==
  \E j \in 0..deq_size, k \in 0..deq_size :
    LET a == iterator_plus(begin(Cur), j)
        b == iterator_plus(begin(Cur), k)
        res == Observed(Cur, <<>>, FALSE)
    IN /\ iterator_difference(a, b) > 0
       /\ Commit(Call("compare", res), res, abs)

\* it[i] for an iterator of [begin(), end()) and a signed offset that stays
\* inside the window.
IteratorSubscript ==
  \E k \in 0..(deq_size - 1), i \in (0 - MaxCap)..MaxCap :
    LET it == iterator_plus(begin(Cur), k)
        res == Observed(Cur, << <<iterator_subscript(it, i),
                                  Mem(Cur, iterator_subscript(it, i))>> >>,
                        FALSE)
    IN /\ 0 <= k + i
       /\ k + i < deq_size
       /\ Commit(Call("subscript", res), res, abs)

\* max_size(): the number of elements the backing region can hold.
max_size(s) == Cardinality(DOMAIN s.buf)

MaxSizeCall ==
  LET res == Observed(Cur, <<>>, FALSE)
  IN /\ max_size(Cur) >= 0
     /\ Commit(Call("max_size", res), res, abs)

NextObserve ==
  \/ Next
  \/ AtCall
  \/ ForwardIteration
  \/ ReverseIteration
  \/ IteratorCompare
  \/ IteratorSubscript
  \/ MaxSizeCall

SpecObserve == Init /\ [][NextObserve]_vars

\* C16: in every reachable state at(i) reports out of range exactly when
\* i >= size(); when it does not, it refers to the slot of cdeque[i]; in
\* both cases the deque is as before.
C16_AtChecksRange ==
  Live =>
    /\ \A i \in 0..(cap + 1) :
         LET r == at(Cur, i)
         IN /\ r.threw <=> (i >= size(Cur))
            /\ r.st = Cur
            /\ r.wr = {}
            /\ ~r.threw => r.ref = << <<inner_to_outer(Cur, i), At(Cur, i)>> >>
    /\ at(Cur, size(Cur)).threw
    /\ ~empty(Cur) => ~at(Cur, size(Cur) - 1).threw

\* An at(i) that threw on a deque that holds elements and is not full.
C16_Witness ==
  /\ Live
  /\ last.op = "at"
  /\ last.threw
  /\ ~empty(Cur)
  /\ ~full(Cur)
  /\ deq_start > 0

\* C17: in every reachable non-empty state front() is the slot of cdeque[0]
\* and back() the slot of cdeque[size()-1]; directly after push_back(v)
\* back() reads v and directly after push_front(v) front() reads v.
C17_FrontBackAreEnds ==
  Live =>
    /\ ~empty(Cur) =>
         /\ front(Cur) = inner_to_outer(Cur, 0)
         /\ back(Cur) = inner_to_outer(Cur, size(Cur) - 1)
    /\ ~full(Cur) =>
         \A v \in Vals :
           /\ LET t == push_back(Cur, v, FALSE, FALSE).st
              IN /\ back(t) = inner_to_outer(t, size(t) - 1)
                 /\ Mem(t, back(t)) = v
           /\ LET t == push_front(Cur, v, FALSE, FALSE).st
              IN /\ front(t) = inner_to_outer(t, 0)
                 /\ Mem(t, front(t)) = v

\* C18: in every reachable state the forward loop from begin() reaches
\* end() after exactly size() increments and its k-th visit is cdeque[k];
\* the reverse loop from rbegin() reaches rend() after exactly size()
\* increments and its k-th visit is cdeque[size()-1-k].
C18_IterationVisitsLogicalOrder ==
  Live =>
    LET f == Forward(Cur)
        r == Backward(Cur)
    IN /\ Len(f) = size(Cur)
       /\ \A k \in 0..(size(Cur) - 1) :
            f[k + 1] = <<inner_to_outer(Cur, k), At(Cur, k)>>
       /\ Len(r) = size(Cur)
       /\ \A k \in 0..(size(Cur) - 1) :
            r[k + 1] = <<inner_to_outer(Cur, size(Cur) - 1 - k),
                         At(Cur, size(Cur) - 1 - k)>>
       /\ Reverse(r) = f

\* A reverse loop over a full window that wraps past the physical end.
C18_Witness ==
  /\ Live
  /\ last.op = "reverse"
  /\ last.split
  /\ cap = MaxCap
  /\ full(Cur)
  /\ Logical(Cur) = abs
  /\ abs[1] # abs[Len(abs)]

\* C19: for iterators a = begin() + j and b = begin() + k of one deque,
\* a - b = j - k and ==, !=, <, >, <=, >= compare j with k; end() - begin()
\* = size() and end() > begin() exactly when the deque is not empty.
C19_IteratorsCompareByIndex ==
  Live =>
    /\ \A j \in 0..size(Cur), k \in 0..size(Cur) :
         LET a == iterator_plus(begin(Cur), j)
             b == iterator_plus(begin(Cur), k)
         IN /\ iterator_difference(a, b) = j - k
            /\ iterator_eq(a, b) <=> (j = k)
            /\ iterator_ne(a, b) <=> (j # k)
            /\ iterator_lt(a, b) <=> (j < k)
            /\ iterator_gt(a, b) <=> (j > k)
            /\ iterator_le(a, b) <=> (j <= k)
            /\ iterator_ge(a, b) <=> (j >= k)
    /\ iterator_difference(end(Cur), begin(Cur)) = size(Cur)
    /\ iterator_gt(end(Cur), begin(Cur)) <=> ~empty(Cur)

\* Iterators compared on a deque whose window wraps: the later element is
\* at the lower physical position.
C19_Witness ==
  /\ Live
  /\ last.op = "compare"
  /\ deq_size >= 2
  /\ inner_to_outer(Cur, deq_size - 1) < inner_to_outer(Cur, 0)
  /\ Slots(Cur) \subseteq Region(Cur)

\* C20: for an iterator it at logical index k and a signed offset i with
\* 0 <= k + i < size(), it[i], *(it + i) and *(i + it) refer to cdeque[k+i];
\* *(it - i) refers to cdeque[k-i] when 0 <= k - i < size(); i - it is the
\* same iterator as it - i.
C20_IteratorOffsets ==
  Live =>
    \A k \in 0..(size(Cur) - 1), i \in (0 - MaxCap)..MaxCap :
      LET it == iterator_plus(begin(Cur), k)
      IN /\ (0 <= k + i /\ k + i < size(Cur)) =>
              /\ iterator_subscript(it, i) = inner_to_outer(Cur, k + i)
              /\ iterator_arrow(iterator_plus(it, i)) = inner_to_outer(Cur, k + i)
              /\ iterator_arrow(iterator_plus_left(i, it)) = inner_to_outer(Cur, k + i)
              /\ iterator_deref(iterator_plus(it, i)) = At(Cur, k + i)
         /\ (0 <= k - i /\ k - i < size(Cur)) =>
              /\ iterator_arrow(iterator_minus(it, i)) = inner_to_outer(Cur, k - i)
              /\ iterator_deref(iterator_minus(it, i)) = At(Cur, k - i)
         /\ iterator_minus_left(i, it) = iterator_minus(it, i)

\* A subscript with an offset on a deque whose window wraps past the
\* physical end.
C20_Witness ==
  /\ Live
  /\ last.op = "subscript"
  /\ deq_size = MaxCap
  /\ deq_start = MaxCap - 1
  /\ Logical(Cur) = abs
  /\ abs[1] # abs[Len(abs)]

----------------------------------------------------------------------------
\* Increment and decrement of an iterator variable.  it is the variable
\* after the expression, ret the iterator the expression yields.

\* ++it / --it: step *this, return *this.
iterator_pre_inc(it) == [it |-> iterator_inc(it), ret |-> iterator_inc(it)]

iterator_pre_dec(it) == [it |-> iterator_dec(it), ret |-> iterator_dec(it)]

\* it++ / it--: a temporary copy of *this is stepped and returned; *this is
\* not assigned.
iterator_post_inc(it) == [it |-> it, ret |-> iterator_inc(it)]

iterator_post_dec(it) == [it |-> it, ret |-> iterator_dec(it)]

\* C21: it++ and it-- move it by one logical position and yield the
\* position before the move; ++it and --it move it by one and yield the
\* moved iterator.
C21_PostfixYieldsOldPosition ==
  Live =>
    /\ \A k \in 0..(size(Cur) - 1) :
         LET it == iterator_plus(begin(Cur), k)
         IN /\ base(iterator_post_inc(it).it) = k + 1
            /\ base(iterator_post_inc(it).ret) = k
            /\ base(iterator_pre_inc(it).it) = k + 1
            /\ base(iterator_pre_inc(it).ret) = k + 1
    /\ \A k \in 1..size(Cur) :
         LET it == iterator_plus(begin(Cur), k)
         IN /\ base(iterator_post_dec(it).it) = k - 1
            /\ base(iterator_post_dec(it).ret) = k
            /\ base(iterator_pre_dec(it).it) = k - 1
            /\ base(iterator_pre_dec(it).ret) = k - 1

----------------------------------------------------------------------------
\* One mutating call from state s.

\* The ways an element assignment can go: <<throws, partial>>.
Assignments == {x \in BOOLEAN \X BOOLEAN : x[1] \/ ~x[2]}

\* The ways a copy of rg can go: <<throws, done>>.
Copies(rg) ==
  {<<FALSE, Len(rg)>>} \cup {<<TRUE, d>> : d \in {e \in 0..Len(rg) : Len(rg) >= 1}}

\* A call: its name, its arguments, what it did, and shift, the number of
\* positions by which it moved the logical index of the elements it kept
\* (elements added at the front minus elements removed there).
MutatorCall(o, a, r, sh) == [op |-> o, arg |-> a, res |-> r, shift |-> sh]

\* Every call of a mutator whose precondition holds in s.
Calls(s) ==
  {MutatorCall("push_back", <<x[1]>>, push_back(s, x[1], x[2][1], x[2][2]), 0) :
     x \in {y \in Vals \X Assignments : ~full(s)}}
  \cup
  {MutatorCall("push_front", <<x[1]>>, push_front(s, x[1], x[2][1], x[2][2]),
               IF x[2][1] THEN 0 ELSE 1) :
     x \in {y \in Vals \X Assignments : ~full(s)}}
  \cup
  {MutatorCall("pop_back", <<>>, pop_back(s), 0) : x \in {y \in {0} : ~empty(s)}}
  \cup
  {MutatorCall("pop_front", <<>>, pop_front(s), 0 - 1) :
     x \in {y \in {0} : ~empty(s)}}
  \cup
  UNION {{MutatorCall("append_range", rg, append_range(s, rg, c[1], c[2]), 0) :
            c \in Copies(rg)} : rg \in Ranges(s)}
  \cup
  UNION {{MutatorCall("prepend_range", rg, prepend_range(s, rg, c[1], c[2]),
                      IF c[1] THEN 0 ELSE Len(rg)) :
            c \in Copies(rg)} : rg \in Ranges(s)}
  \cup
  {MutatorCall("resize", <<n>>, resize(s, n), 0) : n \in 0..capacity(s)}
  \cup
  {MutatorCall("clear", <<>>, clear(s), 0)}

\* An iterator holds a pointer to the deque, not a copy of it: an access
\* through it reads the deque as it is at the access.
AtAccess(it, s) == [it EXCEPT !.data_ = s]

\* C22: an iterator at logical index k that was taken before a mutating
\* call refers, when dereferenced after it, to cdeque[k] of the deque after
\* the call; a begin() taken before push_front(v) dereferences to v after
\* it.
C22_IteratorIsLogicalCoordinate ==
  Live =>
    \A c \in Calls(Cur) :
      LET t == c.res.st
      IN /\ \A k \in 0..(size(t) - 1) :
              LET it == AtAccess(iterator_plus(begin(Cur), k), t)
              IN /\ iterator_arrow(it) = inner_to_outer(t, k)
                 /\ iterator_deref(it) = At(t, k)
         /\ (c.op = "push_front" /\ ~c.res.threw) =>
              iterator_deref(AtAccess(begin(Cur), t)) = c.arg[1]

\* C23: pop_back() and pop_front() on a non-empty deque decrease size() by
\* one, change no buffer slot and cannot fail; pop_back() leaves start and
\* moves finish one step back cyclically, pop_front() leaves finish and
\* moves start one step forward cyclically.
C23_PopsMoveOneMarker ==
  (Live /\ ~empty(Cur)) =>
    /\ LET res == pop_back(Cur)
       IN /\ size(res.st) = size(Cur) - 1
          /\ res.st.buf = buf
          /\ res.wr = {}
          /\ ~res.threw
          /\ res.st.deq_start = deq_start
          /\ res.st.deq_finish \in Region(Cur)
          /\ res.st.deq_finish = (deq_finish - 1) % cap
    /\ LET res == pop_front(Cur)
       IN /\ size(res.st) = size(Cur) - 1
          /\ res.st.buf = buf
          /\ res.wr = {}
          /\ ~res.threw
          /\ res.st.deq_finish = deq_finish
          /\ res.st.deq_start \in Region(Cur)
          /\ res.st.deq_start = (deq_start + 1) % cap

\* C24: no mutating call moves an element: every element that is in the
\* logical sequence before and after the call (at index i before, at index
\* i + shift after) is in the same physical slot with the same content.
C24_NoElementMoves ==
  Live =>
    \A c \in Calls(Cur) :
      LET t == c.res.st
      IN \A i \in 0..(size(Cur) - 1) :
           LET j == i + c.shift
           IN (0 <= j /\ j < size(t)) =>
                /\ inner_to_outer(t, j) = inner_to_outer(Cur, i)
                /\ At(t, j) = At(Cur, i)

\* A push_front that has wrapped start to the last physical slot of a deque
\* that held elements, and a value unlike the old front.
C24_Witness ==
  /\ Live
  /\ last.op = "push_front"
  /\ ~last.threw
  /\ cap = MaxCap
  /\ deq_start = cap - 1
  /\ deq_size >= 2
  /\ Logical(Cur) = abs
  /\ abs[1] # abs[2]

\* C25: no call, whether it completes or throws, changes capacity() or the
\* bounds of the backing region.
C25_CapacityFixed ==
  [][/\ cap' = cap
     /\ DOMAIN buf' = DOMAIN buf
     /\ DOMAIN buf' = 0..(cap' - 1)]_vars

\* A deque of the largest capacity emptied by resize(0) after it had been
\* written to.
C25_Witness ==
  /\ last.op = "resize"
  /\ cap = MaxCap
  /\ capacity(Cur) = MaxCap
  /\ deq_size = 0
  /\ DOMAIN buf = 0..(MaxCap - 1)
  /\ \E p \in DOMAIN buf : buf[p] # InitVal

C27_FinishIsOnePastLast ==
  Live =>
    /\ deq_finish = impl_wrap_cycle(Cur, deq_start + size(Cur))
    /\ (empty(Cur) \/ full(Cur)) => deq_start = deq_finish
    /\ (~full(Cur) /\ deq_start = 0) => deq_finish = size(Cur)

\* The lengths of the std::copy calls append_range(rg) makes, in order.
AppendCopies(s, rg) ==
  LET rg_size == Len(rg)
      size1 == s.cap - s.deq_finish
  IN IF rg_size <= size1 THEN <<rg_size>> ELSE <<size1, rg_size - size1>>

\* The lengths of the std::copy calls prepend_range(rg) makes, in order.
PrependCopies(s, rg) ==
  LET rg_size == Len(rg)
      size2 == impl_dec_cycle(s, s.deq_start) + 1 - 0
  IN IF rg_size <= size2 THEN <<rg_size>> ELSE <<size2, rg_size - size2>>

\* C28: on a deque of capacity >= 1 every store of append_range and
\* prepend_range goes to a slot of [first, last) that holds no logical
\* element; the copy is made as one sub-copy or as two, split at the
\* distance from finish to the physical end (append_range) or from the
\* physical start to start (prepend_range), both sub-copies of a split are
\* non-empty, and the distance from finish to the physical end is not 0.
C28_RangeWritesFreeSlots ==
  (Live /\ cap >= 1) =>
    /\ cap - deq_finish # 0
    /\ \A rg \in Ranges(Cur) :
         /\ LET res == append_range(Cur, rg, FALSE, Len(rg))
                cp == AppendCopies(Cur, rg)
            IN /\ res.wr \subseteq Region(Cur)
               /\ res.wr \cap Slots(Cur) = {}
               /\ Cardinality(res.wr) = Len(rg)
               /\ Len(cp) = 2 =>
                    /\ cp[1] = cap - deq_finish
                    /\ cp[1] > 0
                    /\ cp[2] > 0
                    /\ res.split
         /\ LET res == prepend_range(Cur, rg, FALSE, Len(rg))
                cp == PrependCopies(Cur, rg)
            IN /\ res.wr \subseteq Region(Cur)
               /\ res.wr \cap Slots(Cur) = {}
               /\ Cardinality(res.wr) = Len(rg)
               /\ Len(cp) = 2 =>
                    /\ cp[1] = (IF deq_start = 0 THEN cap ELSE deq_start)
                    /\ cp[1] > 0
                    /\ cp[2] > 0

----------------------------------------------------------------------------
\* The pointer-range (view) variant: cyclic_deque_impl over a
\* pointer_range, with the same members.  Positions are offsets from
\* buf.begin() as above.

view_push_back(s, value, throws, partial) ==
  LET st == IF throws /\ ~partial THEN <<>> ELSE << <<s.deq_finish, value>> >>
      b == StoreAll(s.buf, st)
  IN IF throws
     THEN Result([s EXCEPT !.buf = b], st, TRUE)
     ELSE Result([s EXCEPT !.buf = b,
                           !.deq_finish = inc_cycle(s.deq_finish, 0, s.cap),
                           !.deq_size = @ + 1], st, FALSE)

view_pop_back(s) ==
  Result([s EXCEPT !.deq_finish = dec_cycle(s.deq_finish, 0, s.cap),
                   !.deq_size = @ - 1], <<>>, FALSE)

view_push_front(s, value, throws, partial) ==
  LET dec_deq_start == dec_cycle(s.deq_start, 0, s.cap)
      st == IF throws /\ ~partial THEN <<>> ELSE << <<dec_deq_start, value>> >>
      b == StoreAll(s.buf, st)
  IN IF throws
     THEN Result([s EXCEPT !.buf = b], st, TRUE)
     ELSE Result([s EXCEPT !.buf = b,
                           !.deq_start = dec_deq_start,
                           !.deq_size = @ + 1], st, FALSE)

view_pop_front(s) ==
  Result([s EXCEPT !.deq_start = inc_cycle(s.deq_start, 0, s.cap),
                   !.deq_size = @ - 1], <<>>, FALSE)

view_append_range(s, rg, throws, done) ==
  LET rg_size == Len(rg)
      size1 == s.cap - s.deq_finish
      all == [k \in 1..rg_size |->
                IF rg_size <= size1 \/ k <= size1
                THEN <<s.deq_finish + (k - 1), rg[k]>>
                ELSE <<0 + (k - size1 - 1), rg[k]>>]
      finish2 == IF rg_size <= size1
                 THEN s.deq_finish + rg_size
                 ELSE 0 + (rg_size - size1)
  IN CopyResult(s, all, throws, done,
                [s EXCEPT !.deq_finish = finish2, !.deq_size = @ + rg_size])

view_prepend_range(s, rg, throws, done) ==
  LET rg_size == Len(rg)
      dec_deq_start == dec_cycle(s.deq_start, 0, s.cap) + 1
      size2 == dec_deq_start - 0
      start2 == IF rg_size <= size2
                THEN dec_deq_start - rg_size
                ELSE s.cap - rg_size + size2
      all == [k \in 1..rg_size |->
                IF rg_size <= size2 THEN <<start2 + (k - 1), rg[k]>>
                ELSE IF k <= size2 THEN <<0 + (k - 1), rg[rg_size - size2 + k]>>
                ELSE <<start2 + (k - size2 - 1), rg[k - size2]>>]
  IN CopyResult(s, all, throws, done,
                [s EXCEPT !.deq_start = start2, !.deq_size = @ + rg_size])

view_clear(s) ==
  Result([s EXCEPT !.deq_start = 0, !.deq_finish = 0, !.deq_size = 0],
         <<>>, FALSE)

\* The position resize(n) of the view variant passes to wrap_cycle.
view_resize_index(s, n) == s.deq_finish + (n - s.deq_size)

view_resize(s, n) ==
  LET sz == s.deq_size
      d == n - sz
  IN Result([s EXCEPT !.deq_finish = wrap_cycle(view_resize_index(s, n), 0, s.cap),
                      !.deq_size = sz + d], <<>>, FALSE)

\* Every call of a mutator of the view variant whose precondition holds in
\* s, as Calls(s).
ViewCalls(s) ==
  {MutatorCall("push_back", <<x[1]>>,
               view_push_back(s, x[1], x[2][1], x[2][2]), 0) :
     x \in {y \in Vals \X Assignments : ~full(s)}}
  \cup
  {MutatorCall("push_front", <<x[1]>>,
               view_push_front(s, x[1], x[2][1], x[2][2]),
               IF x[2][1] THEN 0 ELSE 1) :
     x \in {y \in Vals \X Assignments : ~full(s)}}
  \cup
  {MutatorCall("pop_back", <<>>, view_pop_back(s), 0) :
     x \in {y \in {0} : ~empty(s)}}
  \cup
  {MutatorCall("pop_front", <<>>, view_pop_front(s), 0 - 1) :
     x \in {y \in {0} : ~empty(s)}}
  \cup
  UNION {{MutatorCall("append_range", rg,
                      view_append_range(s, rg, c[1], c[2]), 0) :
            c \in Copies(rg)} : rg \in Ranges(s)}
  \cup
  UNION {{MutatorCall("prepend_range", rg,
                      view_prepend_range(s, rg, c[1], c[2]),
                      IF c[1] THEN 0 ELSE Len(rg)) :
            c \in Copies(rg)} : rg \in Ranges(s)}
  \cup
  {MutatorCall("resize", <<n>>, view_resize(s, n), 0) : n \in 0..capacity(s)}
  \cup
  {MutatorCall("clear", <<>>, view_clear(s), 0)}

\* The position resize(n) of the owning variant passes to wrap_cycle.
resize_index(s, n) ==
  LET d == n - s.deq_size
  IN IF d < 0 THEN s.deq_finish + d + capacity(s) ELSE s.deq_finish + d

\* The range of positions wrap_cycle accepts: [first, first + 2 capacity).
WrapAccepts(s, index) == 0 <= index /\ index < 2 * s.cap

\* C29: on a deque of capacity >= 1 every position a call passes to wrap is
\* in [first, first + 2 capacity): the occupancy constructor's, that of
\* inner_to_outer for an index in [0, size()), and that of resize, growing
\* and shrinking, in both variants.
C29_WrapCalledInRange ==
  (Live /\ cap >= 1) =>
    /\ \A c \in 1..MaxCap : \A n \in 0..c :
         WrapAccepts(CtorCapacitySize(c, n), 0 + n)
    /\ \A i \in 0..(size(Cur) - 1) : WrapAccepts(Cur, deq_start + i)
    /\ \A n \in 0..cap :
         /\ WrapAccepts(Cur, resize_index(Cur, n))
         /\ WrapAccepts(Cur, view_resize_index(Cur, n))

\* C30: from the same state the same call leaves both variants with the
\* same size(), the same offsets of start and finish and the same logical
\* contents.
C30_VariantsAgree ==
  Live =>
    \A c \in Calls(Cur) :
      \E v \in ViewCalls(Cur) :
        /\ v.op = c.op
        /\ v.arg = c.arg
        /\ v.res.threw = c.res.threw
        /\ v.res.wr = c.res.wr
        /\ size(v.res.st) = size(c.res.st)
        /\ v.res.st.deq_start = c.res.st.deq_start
        /\ v.res.st.deq_finish = c.res.st.deq_finish
        /\ Logical(v.res.st) = Logical(c.res.st)

----------------------------------------------------------------------------
\* The index arithmetic on its own, over every range [start, start + n) with
\* start in 0..MaxCap and n in 1..MaxCap, and over the buffer of the deque.

\* C31: for a range [start, finish) of length n >= 1 and every p in
\* [start, start + 2n), wrap(p) is in [start, finish) and is p when
\* p < finish and p - n otherwise.
C31_WrapIntoRange ==
  /\ \A start \in 0..MaxCap, n \in 1..MaxCap :
       LET finish == start + n
       IN \A p \in start..(start + 2 * n - 1) :
            LET w == wrap_cycle(p, start, finish)
            IN /\ start <= w
               /\ w < finish
               /\ w = (IF p < finish THEN p ELSE p - n)
               /\ p - w \in {0, n}
  /\ cap >= 1 =>
       \A p \in 0..(2 * cap - 1) :
         /\ impl_wrap_cycle(Cur, p) \in Region(Cur)
         /\ impl_wrap_cycle(Cur, p) = p % cap

\* A resize that grew the window over the physical end: finish was wrapped.
C31_Witness ==
  /\ Live
  /\ last.op = "resize"
  /\ cap = MaxCap
  /\ deq_start = cap - 1
  /\ deq_size = 2
  /\ deq_finish = 1
  /\ deq_finish = impl_wrap_cycle(Cur, deq_start + deq_size)

\* C32: for a range [start, finish) of length n >= 1 and every p in it,
\* inc(p) and dec(p) are in the range, inc(finish - 1) = start,
\* dec(start) = finish - 1, dec(inc(p)) = p and inc(dec(p)) = p; n = 1
\* included.
C32_IncDecInverse ==
  /\ \A start \in 0..MaxCap, n \in 1..MaxCap :
       LET finish == start + n
       IN /\ inc_cycle(finish - 1, start, finish) = start
          /\ dec_cycle(start, start, finish) = finish - 1
          /\ \A p \in start..(finish - 1) :
               /\ inc_cycle(p, start, finish) \in start..(finish - 1)
               /\ dec_cycle(p, start, finish) \in start..(finish - 1)
               /\ dec_cycle(inc_cycle(p, start, finish), start, finish) = p
               /\ inc_cycle(dec_cycle(p, start, finish), start, finish) = p
  /\ cap >= 1 =>
       \A p \in Region(Cur) :
         /\ impl_inc_cycle(Cur, p) = (p + 1) % cap
         /\ impl_dec_cycle(Cur, p) = (p - 1) % cap
         /\ impl_dec_cycle(Cur, impl_inc_cycle(Cur, p)) = p
         /\ impl_inc_cycle(Cur, impl_dec_cycle(Cur, p)) = p

\* A pop_back that stepped finish back from the first physical slot to the
\* last one.
C32_Witness ==
  /\ Live
  /\ last.op = "pop_back"
  /\ cap = MaxCap
  /\ deq_finish = cap - 1
  /\ deq_start = 1
  /\ deq_size = cap - 2

----------------------------------------------------------------------------
\* C33: for an iterator at a logical index in [0, size()] and every offset i
\* with -2n < i < 2n, n the capacity, it[i] resolves to a position of the
\* backing region.
C33_SubscriptStaysInRegion ==
  (Live /\ cap >= 1) =>
    \A k \in 0..size(Cur), i \in (1 - 2 * cap)..(2 * cap - 1) :
      iterator_subscript(iterator_plus(begin(Cur), k), i) \in Region(Cur)

----------------------------------------------------------------------------
\* Every mutator on a deque that was constructed empty; resize only shrinks.

ResizeShrink ==
  \E n \in 0..deq_size :
    LET res == resize(Cur, n)
    IN Commit(Call("resize", res), res, SubSeq(abs, 1, n))

NextMutators ==
  \/ PushBack
  \/ PopBack
  \/ PushFront
  \/ PopFront
  \/ AppendRange
  \/ PrependRange
  \/ Clear
  \/ ResizeShrink

SpecMutators == InitEmpty /\ [][NextMutators]_vars

\* C34: after every step of a sequence of mutator calls on a deque that
\* started empty, size() is the length of the abstract sequence the same
\* calls produce and cdeque[i] is its i-th element.
C34_MutatorsRefineSequence ==
  Live =>
    /\ size(Cur) = Len(abs)
    /\ Logical(Cur) = abs

----------------------------------------------------------------------------
\* C35: append_range and prepend_range of an empty range leave start, finish,
\* size() and every buffer slot as they were, in every reachable state.
C35_EmptyRangeIsNoOp ==
  Live =>
    /\ append_range(Cur, <<>>, FALSE, 0).st = Cur
    /\ prepend_range(Cur, <<>>, FALSE, 0).st = Cur

\* C36: from a non-full state, push_back(v) then pop_back() and push_front(v)
\* then pop_front() restore start, finish and size(); only the free slot that
\* was written may differ.
C36_PushPopSameEndInverse ==
  (Live /\ ~full(Cur)) =>
    \A v \in Vals :
      LET pb == push_back(Cur, v, FALSE, FALSE)
          b  == pop_back(pb.st).st
          pf == push_front(Cur, v, FALSE, FALSE)
          f  == pop_front(pf.st).st
      IN /\ SameMarkers(Cur, b)
         /\ Cardinality(pb.wr) = 1
         /\ pb.wr \subseteq Region(Cur) \ Slots(Cur)
         /\ Changed(Cur, b) \subseteq pb.wr
         /\ SameMarkers(Cur, f)
         /\ Cardinality(pf.wr) = 1
         /\ pf.wr \subseteq Region(Cur) \ Slots(Cur)
         /\ Changed(Cur, f) \subseteq pf.wr

\* C37: the positions of cdeque[0], ..., cdeque[size()-1] are pairwise
\* different and are positions of the backing region.
C37_MappingInjectiveInRegion ==
  Live =>
    /\ \A i, j \in 0..(size(Cur) - 1) :
         i # j => inner_to_outer(Cur, i) # inner_to_outer(Cur, j)
    /\ \A i \in 0..(size(Cur) - 1) : inner_to_outer(Cur, i) \in Region(Cur)

====
